---- MODULE Spec2Model ----
(***************************************************************************)
(* Buffer pool manager of rust_rdbms (src/rdbms/src/buffer.rs): the        *)
(* clock-sweep BufferPool::evict and BufferPoolManager::fetch_page, with   *)
(* the clients that hold, mutate and drop the Rc<Buffer> handles and the   *)
(* DiskManager the pages are read from and written to.                     *)
(***************************************************************************)
EXTENDS Integers, Sequences, FiniteSets, TLC

\* ---------------------------------------------------------------- bounds
MaxPoolSize == 3      \* SweepSpec constructs pools of 1..MaxPoolSize frames
MaxPageId == 3        \* SweepSpec's clients fetch the pages 0..MaxPageId
MaxByte == 1          \* a page's contents are one value of 0..MaxByte
MaxUsageCount == 2    \* hits stop once usage_count reaches this
MaxRefs == 1          \* client handles per Buffer (strong count - 1)
MaxIoErrors == 1      \* disk calls that fail in one run
MaxDataPoolSize == 1  \* Spec constructs pools of 1..MaxDataPoolSize frames
MaxFlushPoolSize == 2 \* FlushSpec constructs pools of 1..MaxFlushPoolSize frames
MaxFlushPageId == 1   \* FlushSpec's clients fetch the pages 0..MaxFlushPageId

PageIds == 0 .. MaxPageId
Pages == 0 .. MaxByte
PoolSizes == 1 .. MaxPoolSize

\* Spec, where clients also write pages and disk calls fail, has the smaller
\* pools and one page less.
DataPageIds == 0 .. MaxPageId - 1
DataPoolSizes == 1 .. MaxDataPoolSize

\* FlushSpec, where clients also flush, has pools of up to two frames.
FlushPoolSizes == 1 .. MaxFlushPoolSize
FlushPageIds == 0 .. MaxFlushPageId

\* PageId::default(): the page_id of a Buffer that never held a page. It is
\* no page a client fetches.
DefaultPageId == MaxPageId + 1

\* Option<BufferId>::None
None == -1

\* [0u8; PAGE_SIZE]
ZeroPage == 0

\* ----------------------------------------------------------------- state
VARIABLES
    buffers,         \* BufferPool.buffers: BufferId -> Frame
    strong_count,    \* Rc::strong_count of each frame's Rc<Buffer>
    next_victim_id,  \* BufferPool.next_victim_id
    page_table,      \* BufferPoolManager.page_table: PageId -> BufferId
    disk,            \* the heap file behind DiskManager: PageId -> Page
    io_errors,       \* environment: the disk calls that have failed so far
    written,         \* history: the page last evicted dirty, and its bytes then
    last             \* history: the last operation and what it did

vars == <<buffers, strong_count, next_victim_id, page_table, disk, io_errors,
          written, last>>

\* impl Default for Buffer
DefaultBuffer == [page_id |-> DefaultPageId, page |-> ZeroPage, is_dirty |-> FALSE]

\* #[derive(Default)] struct Frame
DefaultFrame == [usage_count |-> 0, buffer |-> DefaultBuffer]

\* BufferPool::size
size(bufs) == Cardinality(DOMAIN bufs)

\* BufferPool::increment_id
increment_id(bufs, buffer_id) == (buffer_id + 1) % size(bufs)

\* Rc::get_mut(&mut frame.buffer).is_some(): the pool's reference is the only one
get_mut_is_some(rc, buffer_id) == rc[buffer_id] = 1

\* A frame is on loan when a client holds a reference besides the pool's.
Pinned(rc, buffer_id) == rc[buffer_id] > 1

\* evict that decrements a frame whether or not it is on loan
RECURSIVE EvictLoopNoPinCheck(_, _, _, _)
EvictLoopNoPinCheck(bufs, rc, victim, consecutive_pinned) ==
    IF bufs[victim].usage_count = 0
    THEN [victim_id |-> victim, buffers |-> bufs, next_victim_id |-> victim]
    ELSE EvictLoopNoPinCheck([bufs EXCEPT ![victim].usage_count = @ - 1], rc,
                             increment_id(bufs, victim), 0)

\* evict that does not reset consecutive_pinned at a frame that is not on loan
RECURSIVE EvictLoopNoReset(_, _, _, _)
EvictLoopNoReset(bufs, rc, victim, consecutive_pinned) ==
    IF bufs[victim].usage_count = 0
    THEN [victim_id |-> victim, buffers |-> bufs, next_victim_id |-> victim]
    ELSE IF get_mut_is_some(rc, victim)
    THEN EvictLoopNoReset([bufs EXCEPT ![victim].usage_count = @ - 1], rc,
                          increment_id(bufs, victim), consecutive_pinned)
    ELSE IF consecutive_pinned + 1 >= size(bufs)
    THEN [victim_id |-> None, buffers |-> bufs, next_victim_id |-> victim]
    ELSE EvictLoopNoReset(bufs, rc, increment_id(bufs, victim),
                          consecutive_pinned + 1)

\* evict that gives up one frame early (consecutive_pinned >= pool_size - 1)
RECURSIVE EvictLoopEarlyNone(_, _, _, _)
EvictLoopEarlyNone(bufs, rc, victim, consecutive_pinned) ==
    IF bufs[victim].usage_count = 0
    THEN [victim_id |-> victim, buffers |-> bufs, next_victim_id |-> victim]
    ELSE IF get_mut_is_some(rc, victim)
    THEN EvictLoopEarlyNone([bufs EXCEPT ![victim].usage_count = @ - 1], rc,
                            increment_id(bufs, victim), 0)
    ELSE IF consecutive_pinned + 1 >= size(bufs) - 1
    THEN [victim_id |-> None, buffers |-> bufs, next_victim_id |-> victim]
    ELSE EvictLoopEarlyNone(bufs, rc, increment_id(bufs, victim),
                            consecutive_pinned + 1)

\* evict that advances the cursor past the victim before returning it
RECURSIVE EvictLoopAdvance(_, _, _, _)
EvictLoopAdvance(bufs, rc, victim, consecutive_pinned) ==
    IF bufs[victim].usage_count = 0
    THEN [victim_id |-> victim, buffers |-> bufs,
          next_victim_id |-> increment_id(bufs, victim)]
    ELSE IF get_mut_is_some(rc, victim)
    THEN EvictLoopAdvance([bufs EXCEPT ![victim].usage_count = @ - 1], rc,
                          increment_id(bufs, victim), 0)
    ELSE IF consecutive_pinned + 1 >= size(bufs)
    THEN [victim_id |-> None, buffers |-> bufs, next_victim_id |-> victim]
    ELSE EvictLoopAdvance(bufs, rc, increment_id(bufs, victim),
                          consecutive_pinned + 1)

\* evict that clears the usage_count of a frame it passes instead of
\* decrementing it
RECURSIVE EvictLoopClear(_, _, _, _)
EvictLoopClear(bufs, rc, victim, consecutive_pinned) ==
    IF bufs[victim].usage_count = 0
    THEN [victim_id |-> victim, buffers |-> bufs, next_victim_id |-> victim]
    ELSE IF get_mut_is_some(rc, victim)
    THEN EvictLoopClear([bufs EXCEPT ![victim].usage_count = 0], rc,
                        increment_id(bufs, victim), 0)
    ELSE IF consecutive_pinned + 1 >= size(bufs)
    THEN [victim_id |-> None, buffers |-> bufs, next_victim_id |-> victim]
    ELSE EvictLoopClear(bufs, rc, increment_id(bufs, victim),
                        consecutive_pinned + 1)

\* evict that also decrements the frames on loan it passes
RECURSIVE EvictLoopAgePinned(_, _, _, _)
EvictLoopAgePinned(bufs, rc, victim, consecutive_pinned) ==
    IF bufs[victim].usage_count = 0
    THEN [victim_id |-> victim, buffers |-> bufs, next_victim_id |-> victim]
    ELSE IF get_mut_is_some(rc, victim)
    THEN EvictLoopAgePinned([bufs EXCEPT ![victim].usage_count = @ - 1], rc,
                            increment_id(bufs, victim), 0)
    ELSE IF consecutive_pinned + 1 >= size(bufs)
    THEN [victim_id |-> None,
          buffers |-> [bufs EXCEPT ![victim].usage_count = @ - 1],
          next_victim_id |-> victim]
    ELSE EvictLoopAgePinned([bufs EXCEPT ![victim].usage_count = @ - 1], rc,
                            increment_id(bufs, victim), consecutive_pinned + 1)

\* The loop of BufferPool::evict, from the frame at `victim` on.
RECURSIVE EvictLoop(_, _, _, _)
EvictLoop(bufs, rc, victim, consecutive_pinned) ==
    IF bufs[victim].usage_count = 0
    THEN [victim_id |-> victim, buffers |-> bufs, next_victim_id |-> victim]
    ELSE IF get_mut_is_some(rc, victim)
    THEN EvictLoop([bufs EXCEPT ![victim].usage_count = @ - 1], rc,
                   increment_id(bufs, victim), 0)
    ELSE IF consecutive_pinned + 1 >= size(bufs)
    THEN [victim_id |-> None, buffers |-> bufs, next_victim_id |-> victim]
    ELSE EvictLoop(bufs, rc, increment_id(bufs, victim), consecutive_pinned + 1)

\* One iteration of evict's loop that does not decrement the frame it passes
EvictIterationNoDecrement(bufs, rc, victim, consecutive_pinned) ==
    IF bufs[victim].usage_count = 0
    THEN [done |-> TRUE, victim_id |-> victim, buffers |-> bufs,
          next_victim_id |-> victim, consecutive_pinned |-> consecutive_pinned]
    ELSE IF get_mut_is_some(rc, victim)
    THEN [done |-> FALSE, victim_id |-> None, buffers |-> bufs,
          next_victim_id |-> increment_id(bufs, victim),
          consecutive_pinned |-> 0]
    ELSE IF consecutive_pinned + 1 >= size(bufs)
    THEN [done |-> TRUE, victim_id |-> None, buffers |-> bufs,
          next_victim_id |-> victim,
          consecutive_pinned |-> consecutive_pinned + 1]
    ELSE [done |-> FALSE, victim_id |-> None, buffers |-> bufs,
          next_victim_id |-> increment_id(bufs, victim),
          consecutive_pinned |-> consecutive_pinned + 1]

\* One iteration of the loop of BufferPool::evict: the pool and the local
\* consecutive_pinned after it, and whether it left the loop (break or return)
EvictIteration(bufs, rc, victim, consecutive_pinned) ==
    IF bufs[victim].usage_count = 0
    THEN [done |-> TRUE, victim_id |-> victim, buffers |-> bufs,
          next_victim_id |-> victim, consecutive_pinned |-> consecutive_pinned]
    ELSE IF get_mut_is_some(rc, victim)
    THEN [done |-> FALSE, victim_id |-> None,
          buffers |-> [bufs EXCEPT ![victim].usage_count = @ - 1],
          next_victim_id |-> increment_id(bufs, victim),
          consecutive_pinned |-> 0]
    ELSE IF consecutive_pinned + 1 >= size(bufs)
    THEN [done |-> TRUE, victim_id |-> None, buffers |-> bufs,
          next_victim_id |-> victim,
          consecutive_pinned |-> consecutive_pinned + 1]
    ELSE [done |-> FALSE, victim_id |-> None, buffers |-> bufs,
          next_victim_id |-> increment_id(bufs, victim),
          consecutive_pinned |-> consecutive_pinned + 1]

\* BufferPool::evict
evict(bufs, rc, victim) == EvictLoop(bufs, rc, victim, 0)

\* DiskManager::write_page_data: the heap file after the call (an I/O error
\* leaves the file as it was)
write_page_data(d, page_id, data, ok) ==
    IF ok THEN [d EXCEPT ![page_id] = data] ELSE d

\* DiskManager::read_page_data: the bytes in the caller's array after the call
\* (an I/O error leaves them unspecified: `junk`)
read_page_data(d, page_id, ok, junk) ==
    IF ok THEN d[page_id] ELSE junk

\* One disk call, as recorded in last.io
IoCall(kind, page_id, data, ok) ==
    [kind |-> kind, page_id |-> page_id, page |-> data, ok |-> ok]

\* Reload that goes on to the read when the write-back failed
ReloadIgnoreWriteError(frame, page_id, d, wok, rok, junk) ==
    LET buffer == frame.buffer
        wr == IoCall("write", page_id, buffer.page, wok)
        d1 == IF buffer.is_dirty
              THEN write_page_data(d, page_id, buffer.page, wok)
              ELSE d
        io1 == IF buffer.is_dirty THEN <<wr>> ELSE <<>>
        b1 == [buffer EXCEPT !.page_id = page_id, !.is_dirty = FALSE]
        data == read_page_data(d1, page_id, rok, junk)
        rd == IoCall("read", page_id, data, rok)
    IN  IF ~rok
        THEN [result |-> "Io",
              frame |-> [frame EXCEPT !.buffer = [b1 EXCEPT !.page = data]],
              disk |-> d1, io |-> Append(io1, rd)]
        ELSE [result |-> "Ok",
              frame |-> [usage_count |-> 1, buffer |-> [b1 EXCEPT !.page = data]],
              disk |-> d1, io |-> Append(io1, rd)]

\* Reload that retargets the Buffer (page_id, is_dirty) before the write-back
ReloadRetargetFirst(frame, page_id, d, wok, rok, junk) ==
    LET buffer == frame.buffer
        wr == IoCall("write", page_id, buffer.page, wok)
        d1 == IF buffer.is_dirty
              THEN write_page_data(d, page_id, buffer.page, wok)
              ELSE d
        io1 == IF buffer.is_dirty THEN <<wr>> ELSE <<>>
        b1 == [buffer EXCEPT !.page_id = page_id, !.is_dirty = FALSE]
        data == read_page_data(d1, page_id, rok, junk)
        rd == IoCall("read", page_id, data, rok)
    IN  IF buffer.is_dirty /\ ~wok
        THEN [result |-> "Io", frame |-> [frame EXCEPT !.buffer = b1],
              disk |-> d1, io |-> io1]
        ELSE IF ~rok
        THEN [result |-> "Io",
              frame |-> [frame EXCEPT !.buffer = [b1 EXCEPT !.page = data]],
              disk |-> d1, io |-> Append(io1, rd)]
        ELSE [result |-> "Ok",
              frame |-> [usage_count |-> 1, buffer |-> [b1 EXCEPT !.page = data]],
              disk |-> d1, io |-> Append(io1, rd)]

\* Reload that leaves the frame's usage_count as evict left it (0)
ReloadNoUsage(frame, page_id, d, wok, rok, junk) ==
    LET buffer == frame.buffer
        wr == IoCall("write", page_id, buffer.page, wok)
        d1 == IF buffer.is_dirty
              THEN write_page_data(d, page_id, buffer.page, wok)
              ELSE d
        io1 == IF buffer.is_dirty THEN <<wr>> ELSE <<>>
        b1 == [buffer EXCEPT !.page_id = page_id, !.is_dirty = FALSE]
        data == read_page_data(d1, page_id, rok, junk)
        rd == IoCall("read", page_id, data, rok)
    IN  IF buffer.is_dirty /\ ~wok
        THEN [result |-> "Io", frame |-> frame, disk |-> d1, io |-> io1]
        ELSE IF ~rok
        THEN [result |-> "Io",
              frame |-> [frame EXCEPT !.buffer = [b1 EXCEPT !.page = data]],
              disk |-> d1, io |-> Append(io1, rd)]
        ELSE [result |-> "Ok",
              frame |-> [frame EXCEPT !.buffer = [b1 EXCEPT !.page = data]],
              disk |-> d1, io |-> Append(io1, rd)]

\* fetch_page, steps 2 and 3: write the victim back when it is dirty, then
\* retarget the Buffer and read the requested page into it. `?` returns at the
\* first disk call that fails.
Reload(frame, page_id, d, wok, rok, junk) ==
    LET buffer == frame.buffer
        wr == IoCall("write", page_id, buffer.page, wok)
        d1 == IF buffer.is_dirty
              THEN write_page_data(d, page_id, buffer.page, wok)
              ELSE d
        io1 == IF buffer.is_dirty THEN <<wr>> ELSE <<>>
        b1 == [buffer EXCEPT !.page_id = page_id, !.is_dirty = FALSE]
        data == read_page_data(d1, page_id, rok, junk)
        rd == IoCall("read", page_id, data, rok)
    IN  IF buffer.is_dirty /\ ~wok
        THEN [result |-> "Io", frame |-> frame, disk |-> d1, io |-> io1]
        ELSE IF ~rok
        THEN [result |-> "Io",
              frame |-> [frame EXCEPT !.buffer = [b1 EXCEPT !.page = data]],
              disk |-> d1, io |-> Append(io1, rd)]
        ELSE [result |-> "Ok",
              frame |-> [usage_count |-> 1, buffer |-> [b1 EXCEPT !.page = data]],
              disk |-> d1, io |-> Append(io1, rd)]

\* HashMap::remove
remove(table, page_id) ==
    [p \in DOMAIN table \ {page_id} |-> table[p]]

\* HashMap::insert
insert(table, page_id, buffer_id) ==
    [p \in DOMAIN table \cup {page_id} |->
        IF p = page_id THEN buffer_id ELSE table[p]]

\* fetch_page, step 4: the page table after the victim's page was replaced
UpdatePageTable(table, evict_page_id, page_id, buffer_id) ==
    insert(remove(table, evict_page_id), page_id, buffer_id)

\* What evict was called with and what it returned, for last.sweep
NoSweep == [called |-> FALSE]
Sweep(bufs, rc, cursor, ev) ==
    [called |-> TRUE,
     usage_in |-> [i \in DOMAIN bufs |-> bufs[i].usage_count],
     rc_in |-> rc,
     cursor_in |-> cursor,
     victim_id |-> ev.victim_id,
     usage_out |-> [i \in DOMAIN bufs |-> ev.buffers[i].usage_count],
     cursor_out |-> ev.next_victim_id]

\* The hit path that sets usage_count to 1, as the miss path does
FetchHitResetUsage(page_id) ==
    LET buffer_id == page_table[page_id]
    IN  [result |-> "Ok", path |-> "hit", buffer_id |-> buffer_id,
         buffers |-> [buffers EXCEPT ![buffer_id].usage_count = 1],
         strong_count |-> [strong_count EXCEPT ![buffer_id] = @ + 1],
         next_victim_id |-> next_victim_id,
         page_table |-> page_table,
         disk |-> disk,
         io |-> <<>>,
         evicted |-> DefaultBuffer,
         overwritten |-> FALSE,
         sweep |-> NoSweep]

\* fetch_page, the hit path: the page is in the page table
FetchHit(page_id) ==
    LET buffer_id == page_table[page_id]
    IN  [result |-> "Ok", path |-> "hit", buffer_id |-> buffer_id,
         buffers |-> [buffers EXCEPT ![buffer_id].usage_count = @ + 1],
         strong_count |-> [strong_count EXCEPT ![buffer_id] = @ + 1],
         next_victim_id |-> next_victim_id,
         page_table |-> page_table,
         disk |-> disk,
         io |-> <<>>,
         evicted |-> DefaultBuffer,
         overwritten |-> FALSE,
         sweep |-> NoSweep]

\* fetch_page, the miss path: evict, write back, read, update the page table
FetchMiss(page_id, wok, rok, junk) ==
    LET ev == evict(buffers, strong_count, next_victim_id)
        sw == Sweep(buffers, strong_count, next_victim_id, ev)
        buffer_id == ev.victim_id
    IN  IF buffer_id = None
        THEN [result |-> "NoFreeBuffer", path |-> "miss", buffer_id |-> None,
              buffers |-> ev.buffers,
              strong_count |-> strong_count,
              next_victim_id |-> ev.next_victim_id,
              page_table |-> page_table,
              disk |-> disk,
              io |-> <<>>,
              evicted |-> DefaultBuffer,
              overwritten |-> FALSE,
              sweep |-> sw]
        ELSE
        LET frame == ev.buffers[buffer_id]
            evict_page_id == frame.buffer.page_id
        IN  IF ~get_mut_is_some(strong_count, buffer_id)
            THEN \* Rc::get_mut(&mut frame.buffer).unwrap() panics
                 [result |-> "panic", path |-> "miss", buffer_id |-> buffer_id,
                  buffers |-> ev.buffers,
                  strong_count |-> strong_count,
                  next_victim_id |-> ev.next_victim_id,
                  page_table |-> page_table,
                  disk |-> disk,
                  io |-> <<>>,
                  evicted |-> frame.buffer,
                  overwritten |-> FALSE,
                  sweep |-> sw]
            ELSE
            LET r == Reload(frame, page_id, disk, wok, rok, junk)
            IN  [result |-> r.result, path |-> "miss", buffer_id |-> buffer_id,
                 buffers |-> [ev.buffers EXCEPT ![buffer_id] = r.frame],
                 strong_count |->
                     IF r.result = "Ok"
                     THEN [strong_count EXCEPT ![buffer_id] = @ + 1]
                     ELSE strong_count,
                 next_victim_id |-> ev.next_victim_id,
                 page_table |->
                     IF r.result = "Ok"
                     THEN UpdatePageTable(page_table, evict_page_id, page_id,
                                          buffer_id)
                     ELSE page_table,
                 disk |-> r.disk,
                 io |-> r.io,
                 evicted |-> frame.buffer,
                 overwritten |-> r.frame.buffer.page_id # evict_page_id
                                 \/ r.result = "Ok",
                 sweep |-> sw]

\* BufferPoolManager::fetch_page
fetch_page(page_id, wok, rok, junk) ==
    IF page_id \in DOMAIN page_table
    THEN FetchHit(page_id)
    ELSE FetchMiss(page_id, wok, rok, junk)

\* The loop of flush from frame buffer_id on: each frame whose is_dirty is set
\* is written at its current page_id and its flag cleared; `?` returns at the
\* write that fails (the one of frame `fail`, if any).
RECURSIVE FlushFrom(_, _, _, _)
FlushFrom(bufs, d, buffer_id, fail) ==
    IF buffer_id = size(bufs)
    THEN [result |-> "Ok", buffers |-> bufs, disk |-> d, io |-> <<>>]
    ELSE
    LET buffer == bufs[buffer_id].buffer
        ok == buffer_id # fail
        wr == IoCall("write", buffer.page_id, buffer.page, ok)
    IN  IF ~buffer.is_dirty
        THEN FlushFrom(bufs, d, buffer_id + 1, fail)
        ELSE IF ~ok
        THEN [result |-> "Io", buffers |-> bufs, disk |-> d, io |-> <<wr>>]
        ELSE
        LET r == FlushFrom([bufs EXCEPT ![buffer_id].buffer.is_dirty = FALSE],
                           write_page_data(d, buffer.page_id, buffer.page, ok),
                           buffer_id + 1, fail)
        IN  [r EXCEPT !.io = <<wr>> \o @]

\* flush that writes the dirty frames and leaves their flags set
flushKeepDirty(bufs, d, fail) ==
    [FlushFrom(bufs, d, 0, fail) EXCEPT !.buffers = bufs]

\* BufferPoolManager::flush
flush(bufs, d, fail) == FlushFrom(bufs, d, 0, fail)

\* ------------------------------------------------------------- the system
\* No page has been evicted dirty yet.
NoneWritten == [page_id |-> DefaultPageId, page |-> ZeroPage]

\* BufferPool::new(pool_size) and BufferPoolManager::new(disk, pool), on a
\* heap file whose pages are all zero
InitPool(sizes) ==
    /\ \E pool_size \in sizes :
          /\ buffers = [i \in 0 .. pool_size - 1 |-> DefaultFrame]
          /\ strong_count = [i \in 0 .. pool_size - 1 |-> 1]
    /\ next_victim_id = 0
    /\ page_table = << >>
    /\ disk = [p \in PageIds |-> ZeroPage]
    /\ io_errors = 0
    /\ written = NoneWritten
    /\ last = [op |-> "new", page_id |-> DefaultPageId, path |-> "none",
               result |-> "Ok", buffer_id |-> None, io |-> <<>>,
               evicted |-> DefaultBuffer, sweep |-> NoSweep,
               nofree |-> DefaultPageId, retry |-> FALSE, expected |-> None]

Running == last.result # "panic"

\* How a disk call of fetch_page(page_id) may end: the hit path makes none, and
\* at most MaxIoErrors calls fail in a run.
IoOutcomes(page_id, oks) ==
    IF page_id \in DOMAIN page_table \/ io_errors >= MaxIoErrors
    THEN {TRUE}
    ELSE oks

\* A client calls fetch_page(page_id) for a page of `ids`; each disk call it
\* makes succeeds or not as `oks` allows, a failed read leaving bytes of `junks`.
FetchPageBy(ids, oks, junks) ==
    \E page_id \in ids :
      \E wok \in IoOutcomes(page_id, oks), rok \in IoOutcomes(page_id, oks) :
      \E junk \in IF rok THEN {ZeroPage} ELSE junks :
        LET f == fetch_page(page_id, wok, rok, junk)
        IN  /\ Running
            /\ \A i \in DOMAIN buffers :
                   /\ f.buffers[i].usage_count <= MaxUsageCount
                   /\ f.strong_count[i] <= MaxRefs + 1
            /\ buffers' = f.buffers
            /\ strong_count' = f.strong_count
            /\ next_victim_id' = f.next_victim_id
            /\ page_table' = f.page_table
            /\ disk' = f.disk
            /\ io_errors' = IF f.result = "Io" THEN io_errors + 1 ELSE io_errors
            /\ written' = IF /\ f.overwritten
                             /\ f.evicted.is_dirty
                             /\ f.evicted.page_id \in PageIds
                          THEN [page_id |-> f.evicted.page_id,
                                page |-> f.evicted.page]
                          ELSE written
            /\ last' = [op |-> "fetch_page", page_id |-> page_id,
                        path |-> f.path, result |-> f.result,
                        buffer_id |-> f.buffer_id, io |-> f.io,
                        evicted |-> f.evicted, sweep |-> f.sweep,
                        nofree |-> IF f.result = "NoFreeBuffer"
                                   THEN page_id ELSE DefaultPageId,
                        retry |-> last.nofree = page_id,
                        expected |-> IF /\ f.path = "miss"
                                        /\ f.result = "Ok"
                                        /\ written.page_id = page_id
                                     THEN written.page ELSE None]

\* What a client operation that is no fetch leaves in `last`
ClientOp(op, buffer_id) ==
    [op |-> op, page_id |-> DefaultPageId, path |-> "none", result |-> "Ok",
     buffer_id |-> buffer_id, io |-> <<>>, evicted |-> DefaultBuffer,
     sweep |-> NoSweep, nofree |-> last.nofree, retry |-> FALSE,
     expected |-> None]

\* A client that holds a handle writes into buffer.page (RefCell::borrow_mut).
ClientWrite ==
    \E buffer_id \in DOMAIN buffers, data \in Pages :
        /\ Running
        /\ Pinned(strong_count, buffer_id)
        /\ buffers[buffer_id].buffer.page # data
        /\ buffers' = [buffers EXCEPT ![buffer_id].buffer.page = data]
        /\ last' = ClientOp("write", buffer_id)
        /\ UNCHANGED <<strong_count, next_victim_id, page_table, disk, io_errors,
                       written>>

\* A client that holds a handle marks it dirty (buffer.is_dirty.set(true)).
ClientSetDirty ==
    \E buffer_id \in DOMAIN buffers :
        /\ Running
        /\ Pinned(strong_count, buffer_id)
        /\ ~buffers[buffer_id].buffer.is_dirty
        /\ buffers' = [buffers EXCEPT ![buffer_id].buffer.is_dirty = TRUE]
        /\ last' = ClientOp("set_dirty", buffer_id)
        /\ UNCHANGED <<strong_count, next_victim_id, page_table, disk, io_errors,
                       written>>

\* A client drops one handle (Drop for Rc<Buffer>).
ClientDrop ==
    \E buffer_id \in DOMAIN buffers :
        /\ Running
        /\ Pinned(strong_count, buffer_id)
        /\ strong_count' = [strong_count EXCEPT ![buffer_id] = @ - 1]
        /\ last' = ClientOp("drop", buffer_id)
        /\ UNCHANGED <<buffers, next_victim_id, page_table, disk, io_errors, written>>

\* Spec: pools of 1..MaxDataPoolSize frames; clients fetch, write, mark dirty and drop; every
\* disk call may fail.
Init == InitPool(DataPoolSizes)

FetchPage == FetchPageBy(DataPageIds, BOOLEAN, Pages)

Next ==
    \/ FetchPage
    \/ ClientWrite
    \/ ClientSetDirty
    \/ ClientDrop

Spec == Init /\ [][Next]_vars

\* SweepSpec: pools of 1..MaxPoolSize frames; clients fetch and drop; the disk
\* calls succeed.
SweepInit == InitPool(PoolSizes)

SweepFetchPage == FetchPageBy(PageIds, {TRUE}, {ZeroPage})

SweepNext ==
    \/ SweepFetchPage
    \/ ClientDrop

SweepSpec == SweepInit /\ [][SweepNext]_vars

\* Which write of a flush may fail: none, or the one of a dirty frame while
\* fewer than MaxIoErrors disk calls have failed.
FlushFailures ==
    IF io_errors >= MaxIoErrors
    THEN {None}
    ELSE {None} \cup {i \in DOMAIN buffers : buffers[i].buffer.is_dirty}

\* A client calls flush(). In `last`, retry tells that the operation before
\* it was a flush that returned Ok.
Flush ==
    \E fail \in FlushFailures :
        LET f == flush(buffers, disk, fail)
        IN  /\ Running
            /\ buffers' = f.buffers
            /\ disk' = f.disk
            /\ io_errors' = IF f.result = "Io" THEN io_errors + 1 ELSE io_errors
            /\ last' = [ClientOp("flush", None) EXCEPT
                            !.result = f.result, !.io = f.io,
                            !.retry = (last.op = "flush" /\ last.result = "Ok")]
            /\ UNCHANGED <<strong_count, next_victim_id, page_table, written>>

\* FlushSpec: pools of 1..MaxFlushPoolSize frames; clients fetch, write, mark
\* dirty, drop and flush; the disk calls of fetch_page succeed, those of flush
\* may fail.
FlushInit == InitPool(FlushPoolSizes)

FlushFetchPage == FetchPageBy(FlushPageIds, {TRUE}, {ZeroPage})

FlushNext ==
    \/ FlushFetchPage
    \/ ClientWrite
    \/ ClientSetDirty
    \/ ClientDrop
    \/ Flush

FlushSpec == FlushInit /\ [][FlushNext]_vars

\* EvictSpec: one call of evict, an iteration of its loop at a time, on a pool
\* of 1..MaxPoolSize frames that have all been loaded, with any usage counts,
\* any frames on loan (a frame on loan has usage_count >= 1) and any cursor.
\* `last` holds the call's local consecutive_pinned and its result, and
\* whether consecutive_pinned was ever reset to 0 after it had been counted up.
EvictInit ==
    \E pool_size \in PoolSizes :
      \E usage \in [0 .. pool_size - 1 -> 0 .. MaxUsageCount],
         rc \in [0 .. pool_size - 1 -> 1 .. MaxRefs + 1],
         cursor \in 0 .. pool_size - 1 :
        /\ \A i \in 0 .. pool_size - 1 : Pinned(rc, i) => usage[i] >= 1
        /\ buffers = [i \in 0 .. pool_size - 1 |->
                         [usage_count |-> usage[i],
                          buffer |-> [DefaultBuffer EXCEPT !.page_id = i]]]
        /\ strong_count = rc
        /\ next_victim_id = cursor
        /\ page_table = [p \in 0 .. pool_size - 1 |-> p]
        /\ disk = [p \in PageIds |-> ZeroPage]
        /\ io_errors = 0
        /\ written = NoneWritten
        /\ last = [op |-> "evict", result |-> "running", victim_id |-> None,
                   consecutive_pinned |-> 0, reset |-> FALSE]

\* evict runs one iteration of its loop.
EvictStep ==
    LET it == EvictIteration(buffers, strong_count, next_victim_id,
                             last.consecutive_pinned)
    IN  /\ last.result = "running"
        /\ buffers' = it.buffers
        /\ next_victim_id' = it.next_victim_id
        /\ last' = [last EXCEPT
                       !.result = IF ~it.done THEN "running"
                                  ELSE IF it.victim_id = None THEN "None"
                                  ELSE "Some",
                       !.victim_id = it.victim_id,
                       !.consecutive_pinned = it.consecutive_pinned,
                       !.reset = @ \/ (/\ last.consecutive_pinned > 0
                                       /\ it.consecutive_pinned = 0)]
        /\ UNCHANGED <<strong_count, page_table, disk, io_errors, written>>

EvictNext == EvictStep

\* The thread that called evict runs the loop's next iteration as long as the
\* loop has not been left.
EvictSpec == EvictInit /\ [][EvictNext]_vars /\ WF_vars(EvictStep)

\* ------------------------------------------------------------- the claims
IsFetch == last.op = "fetch_page"
IsHit == IsFetch /\ last.path = "hit"
IsMiss == IsFetch /\ last.path = "miss"
FoundVictim == last.sweep.called /\ last.sweep.victim_id # None
AllPinnedBefore == \A i \in DOMAIN last.sweep.rc_in : Pinned(last.sweep.rc_in, i)
IoFailed == \E k \in 1 .. Len(last.io) : ~last.io[k].ok

\* C1: pin safety. evict never returns a frame that a client still holds a
\* reference to, so Rc::get_mut(..).unwrap() in fetch_page never panics.
C1_PinSafety ==
    /\ FoundVictim => ~Pinned(last.sweep.rc_in, last.sweep.victim_id)
    /\ last.result # "panic"

\* C1's case: evict started at a frame on loan, passed it and found a victim.
C1_Witness ==
    /\ FoundVictim
    /\ Pinned(last.sweep.rc_in, last.sweep.cursor_in)
    /\ last.sweep.usage_in[last.sweep.victim_id] > 0

\* C2: dirty durability. On the miss path with a dirty victim, the first disk
\* call is a write of the victim's bytes at the victim's old page_id.
C2_DirtyWriteBack ==
    (IsMiss /\ FoundVictim /\ last.evicted.is_dirty) =>
        /\ Len(last.io) >= 1
        /\ last.io[1].kind = "write"
        /\ last.io[1].page = last.evicted.page
        /\ last.io[1].page_id = last.evicted.page_id

\* C3: round trip. In a run without disk errors, a page that was evicted dirty
\* with bytes b and is fetched again comes back with bytes b.
C3_RoundTrip ==
    (IsMiss /\ last.result = "Ok" /\ last.expected # None /\ io_errors = 0) =>
        buffers[last.buffer_id].buffer.page = last.expected

\* C4: cache coherence. A hit for page p returns a Buffer whose page_id is p
\* (the half of the claim about page_id; the claim adds the bytes).
C4_CacheCoherence ==
    IsHit => buffers[last.buffer_id].buffer.page_id = last.page_id

\* C5: saturation detection and recovery. With every frame on loan, the fetch
\* of a page that is not resident fails with NoFreeBuffer; retried after a
\* client dropped the last reference to one frame, it gets a frame, and
\* succeeds unless a disk call fails.
C5_Saturation ==
    /\ (IsMiss /\ AllPinnedBefore) => last.result = "NoFreeBuffer"
    /\ (IsMiss /\ last.retry /\ ~AllPinnedBefore) =>
           /\ FoundVictim
           /\ last.result = "Ok" \/ (last.result = "Io" /\ IoFailed)

\* C5's case: the retry of a fetch that failed with NoFreeBuffer succeeded, in
\* a pool of more than one frame.
C5_Witness ==
    /\ IsMiss
    /\ last.retry
    /\ last.result = "Ok"
    /\ size(buffers) > 1
    /\ \E i \in DOMAIN buffers : i # last.buffer_id /\ Pinned(last.sweep.rc_in, i)

\* C6: evict returns None, and fetch_page NoFreeBuffer, exactly when every
\* frame of the pool is on loan.
C6_NoneIffAllPinned ==
    last.sweep.called =>
        /\ (last.sweep.victim_id = None) <=> AllPinnedBefore
        /\ (last.result = "NoFreeBuffer") <=> (last.sweep.victim_id = None)

\* C6's case: one frame only was free, its usage_count was not 0, and the
\* cursor did not start at it; evict still returned it.
C6_Witness ==
    /\ FoundVictim
    /\ \A i \in DOMAIN buffers :
           i # last.sweep.victim_id => Pinned(last.sweep.rc_in, i)
    /\ last.sweep.usage_in[last.sweep.victim_id] > 1
    /\ last.sweep.cursor_in # last.sweep.victim_id

\* The example of C7: three frames, none on loan, usage counts [2,0,1], cursor 0
C7_Example ==
    /\ last.sweep.called
    /\ size(buffers) = 3
    /\ last.sweep.usage_in = (0 :> 2 @@ 1 :> 0 @@ 2 :> 1)
    /\ last.sweep.cursor_in = 0
    /\ \A i \in DOMAIN buffers : ~Pinned(last.sweep.rc_in, i)

\* C7 as claimed: on the example evict returns 1, leaves the counts [1,0,1]
\* and the cursor advanced past index 1.
C7_CursorPastVictim ==
    C7_Example =>
        /\ last.sweep.victim_id = 1
        /\ last.sweep.usage_out = (0 :> 1 @@ 1 :> 0 @@ 2 :> 1)
        /\ last.sweep.cursor_out = 2

\* C7 as amended: on the example evict returns 1, leaves the counts [1,0,1]
\* and the cursor at index 1, the victim.
C7_CursorAtVictim ==
    C7_Example =>
        /\ last.sweep.victim_id = 1
        /\ last.sweep.usage_out = (0 :> 1 @@ 1 :> 0 @@ 2 :> 1)
        /\ last.sweep.cursor_out = 1
        /\ next_victim_id = 1

\* C7's case: evict ran on the example.
C7_Witness == C7_Example /\ last.sweep.victim_id = 1 /\ last.result = "Ok"

\* C8: the page table invariant. No two entries map to the same frame, and
\* every entry p -> f has frame f holding page_id p.
C8_PageTableInvariant ==
    /\ \A p, q \in DOMAIN page_table : page_table[p] = page_table[q] => p = q
    /\ \A p \in DOMAIN page_table : buffers[page_table[p]].buffer.page_id = p

\* C9: the hit path's frame effect. A hit makes no disk call, adds exactly 1 to
\* the usage_count of the frame it returns, and leaves the page table, the
\* cursor, the disk, every Buffer and every other usage_count as they were.
C9_HitFrameEffect ==
    [][(last'.op = "fetch_page" /\ last'.path = "hit") =>
          /\ last'.io = <<>>
          /\ last'.result = "Ok"
          /\ last'.buffer_id = page_table[last'.page_id]
          /\ disk' = disk
          /\ page_table' = page_table
          /\ next_victim_id' = next_victim_id
          /\ \A i \in DOMAIN buffers :
                /\ buffers'[i].buffer = buffers[i].buffer
                /\ buffers'[i].usage_count =
                      IF i = last'.buffer_id
                      THEN buffers[i].usage_count + 1
                      ELSE buffers[i].usage_count]_vars

\* C9's case: a hit on a frame whose usage_count was already 1, in a pool where
\* another frame holds a page and the cursor is not at 0.
C9_Witness ==
    /\ IsHit
    /\ buffers[last.buffer_id].usage_count = 2
    /\ next_victim_id # 0
    /\ \E i \in DOMAIN buffers :
           i # last.buffer_id /\ buffers[i].buffer.page_id # DefaultPageId

\* C10: write before read. In one fetch_page no write follows a read, and a
\* read is issued only after every earlier disk call succeeded.
C10_WriteBeforeRead ==
    IsFetch =>
        \A i \in 1 .. Len(last.io) :
            /\ last.io[i].kind = "read" =>
                   \A j \in 1 .. i - 1 : last.io[j].kind = "write" /\ last.io[j].ok
            /\ last.io[i].kind = "write" =>
                   \A j \in 1 .. i - 1 : last.io[j].kind # "read"

\* C10's case: a dirty victim was written back and then the page was read.
C10_Witness ==
    /\ IsMiss
    /\ last.evicted.is_dirty
    /\ Len(last.io) = 2
    /\ last.io[1].kind = "write"
    /\ last.io[2].kind = "read"

\* A fetch_page whose write-back of a dirty victim failed
C11_WriteFailed ==
    /\ IsMiss
    /\ Len(last.io) >= 1
    /\ last.io[1].kind = "write"
    /\ ~last.io[1].ok

DirtyFrames(bufs) == {i \in DOMAIN bufs : bufs[i].buffer.is_dirty}

\* C12: flush idempotence. A flush that returns Ok has made exactly one disk
\* call for each frame whose is_dirty flag was set, a write of the frame's bytes
\* at the frame's page_id, and has cleared every flag; a flush that directly
\* follows a flush that returned Ok makes no disk call; and no flush changes
\* the page table, the usage counts, the clock cursor, or any frame's page_id
\* or bytes.
C12_FlushIdempotent ==
    [][last'.op = "flush" =>
          /\ page_table' = page_table
          /\ next_victim_id' = next_victim_id
          /\ strong_count' = strong_count
          /\ \A i \in DOMAIN buffers :
                /\ buffers'[i].usage_count = buffers[i].usage_count
                /\ buffers'[i].buffer.page_id = buffers[i].buffer.page_id
                /\ buffers'[i].buffer.page = buffers[i].buffer.page
          /\ \A k \in 1 .. Len(last'.io) : last'.io[k].kind = "write"
          /\ last'.result = "Ok" =>
                /\ DirtyFrames(buffers') = {}
                /\ Len(last'.io) = Cardinality(DirtyFrames(buffers))
                /\ \A i \in DirtyFrames(buffers) :
                      /\ \E k \in 1 .. Len(last'.io) :
                            /\ last'.io[k].page_id = buffers[i].buffer.page_id
                            /\ last'.io[k].page = buffers[i].buffer.page
                            /\ last'.io[k].ok
                      /\ disk'[buffers[i].buffer.page_id] = buffers[i].buffer.page
                /\ \A p \in DOMAIN disk :
                      (\A i \in DirtyFrames(buffers) :
                           buffers[i].buffer.page_id # p) => disk'[p] = disk[p]
          /\ (last.op = "flush" /\ last.result = "Ok") =>
                /\ last'.io = <<>>
                /\ last'.result = "Ok"
                /\ disk' = disk
                /\ buffers' = buffers]_vars

\* C12's case: in a pool of two frames a flush wrote two dirty frames, and the
\* flush that followed it directly wrote nothing.
C12_Witness ==
    /\ last.op = "flush"
    /\ last.retry
    /\ last.io = <<>>
    /\ size(buffers) = 2
    /\ \A i \in DOMAIN buffers :
          /\ Pinned(strong_count, i)
          /\ buffers[i].buffer.page # ZeroPage
          /\ disk[buffers[i].buffer.page_id] = buffers[i].buffer.page


\* C13: residency exactness. Every page table entry is for a page that some
\* frame holds; the page a fetch_page has just returned, and the page of every
\* frame on loan (a frame that cannot have been chosen as a victim since), is
\* in the page table; and no two frames hold the same page.
C13_ResidencyExact ==
    /\ \A p \in DOMAIN page_table :
           \E i \in DOMAIN buffers : buffers[i].buffer.page_id = p
    /\ (IsFetch /\ last.result = "Ok") =>
           /\ last.page_id \in DOMAIN page_table
           /\ page_table[last.page_id] = last.buffer_id
    /\ \A i \in DOMAIN buffers :
           Pinned(strong_count, i) =>
               buffers[i].buffer.page_id \in DOMAIN page_table
    /\ \A i, j \in DOMAIN buffers :
           (i # j /\ buffers[i].buffer.page_id # DefaultPageId) =>
               buffers[i].buffer.page_id # buffers[j].buffer.page_id


\* C14: the miss path loads the disk's copy. After a miss-path fetch_page(p)
\* that returned Ok, the returned Buffer has page_id p, is_dirty false and
\* usage_count 1, its bytes are the bytes the disk held for p before the call,
\* and the disk's bytes for p are what they were before the call.
C14_MissLoadsDiskCopy ==
    [][(last'.op = "fetch_page" /\ last'.path = "miss" /\ last'.result = "Ok") =>
          /\ buffers'[last'.buffer_id].buffer.page_id = last'.page_id
          /\ ~buffers'[last'.buffer_id].buffer.is_dirty
          /\ buffers'[last'.buffer_id].usage_count = 1
          /\ buffers'[last'.buffer_id].buffer.page = disk[last'.page_id]
          /\ disk'[last'.page_id] = disk[last'.page_id]]_vars


\* A fetch_page whose read of the requested page failed
C15_ReadFailed ==
    /\ IsMiss
    /\ Len(last.io) >= 1
    /\ last.io[Len(last.io)].kind = "read"
    /\ ~last.io[Len(last.io)].ok

\* C15: read-failure consistency. After a fetch_page(q) whose read failed, the
\* victim frame does not carry page_id q while the page table still maps the
\* evicted page's id to it; and once a disk call has failed, a hit for p still
\* returns a Buffer whose page_id is p, and no two page table entries point at
\* the same frame.
C15_ReadFailureConsistent ==
    /\ C15_ReadFailed =>
           ~ /\ buffers[last.buffer_id].buffer.page_id = last.page_id
             /\ last.evicted.page_id \in DOMAIN page_table
             /\ page_table[last.evicted.page_id] = last.buffer_id
    /\ io_errors > 0 =>
           /\ IsHit => buffers[last.buffer_id].buffer.page_id = last.page_id
           /\ \A p, q \in DOMAIN page_table :
                  p # q => page_table[p] # page_table[q]


\* How far frame i lies from the frame the sweep started at, in cyclic order
C16_Dist(i) == (i - last.sweep.cursor_in + size(buffers)) % size(buffers)

\* How often the sweep passed frame i before it stopped at its victim: the
\* victim once for each unit of its usage_count, a frame before the victim
\* once more
C16_Passes(i) ==
    IF C16_Dist(i) < C16_Dist(last.sweep.victim_id)
    THEN last.sweep.usage_in[last.sweep.victim_id] + 1
    ELSE last.sweep.usage_in[last.sweep.victim_id]

\* C16: clock-sweep step semantics. evict does not change the usage_count of a
\* frame on loan. When it returns a victim, the frames were visited in cyclic
\* order from next_victim_id: every frame not on loan had a usage_count > 0
\* each time it was passed and lost exactly 1 for each pass, the victim is the
\* first frame that was visited with usage_count 0, and next_victim_id is left
\* at the victim.
C16_ClockSweepStep ==
    last.sweep.called =>
        /\ \A i \in DOMAIN buffers :
               Pinned(last.sweep.rc_in, i) =>
                   last.sweep.usage_out[i] = last.sweep.usage_in[i]
        /\ FoundVictim =>
               /\ last.sweep.usage_out[last.sweep.victim_id] = 0
               /\ last.sweep.cursor_out = last.sweep.victim_id
               /\ next_victim_id = last.sweep.victim_id
               /\ \A i \in DOMAIN buffers :
                      IF Pinned(last.sweep.rc_in, i)
                      THEN C16_Passes(i) > 0 => last.sweep.usage_in[i] > 0
                      ELSE /\ last.sweep.usage_in[i] >= C16_Passes(i)
                           /\ last.sweep.usage_out[i] =
                                  last.sweep.usage_in[i] - C16_Passes(i)

\* C16's case: the sweep went round more than once, past a frame on loan and
\* past a frame not on loan that it decremented twice.
C16_Witness ==
    /\ FoundVictim
    /\ last.sweep.usage_in[last.sweep.victim_id] >= 1
    /\ \E i \in DOMAIN buffers : Pinned(last.sweep.rc_in, i)
    /\ \E i \in DOMAIN buffers :
           /\ ~Pinned(last.sweep.rc_in, i)
           /\ C16_Dist(i) < C16_Dist(last.sweep.victim_id)
           /\ last.sweep.usage_out[i] = last.sweep.usage_in[i] - 2


\* C17: eviction terminates. From any usage counts, frames on loan and cursor,
\* in a pool of any size, the loop of evict is left after finitely many
\* iterations, with a victim or with None.
C17_EvictTerminates == <>(last.result \in {"Some", "None"})

\* C17's case: in a pool of three frames the loop was left with a victim after
\* consecutive_pinned had been counted up and reset to 0, the sweep having gone
\* round more than once.
C17_Witness ==
    /\ last.op = "evict"
    /\ last.result = "Some"
    /\ last.reset
    /\ size(buffers) = 3
    /\ \E i \in DOMAIN buffers : Pinned(strong_count, i)
    /\ \E i \in DOMAIN buffers :
           ~Pinned(strong_count, i) /\ buffers[i].usage_count > 0


\* C18: a frame on loan has usage_count >= 1 (a frame whose usage_count is 0
\* is referenced by no client), and no usage_count is below 0.
C18_PinnedImpliesUsed ==
    \A i \in DOMAIN buffers :
        /\ buffers[i].usage_count >= 0
        /\ Pinned(strong_count, i) => buffers[i].usage_count >= 1

\* C18's case: a sweep that started at a frame on loan has passed it and
\* brought another frame down to 0; the frame on loan still has its 1.
C18_Witness ==
    /\ IsMiss
    /\ FoundVictim
    /\ last.sweep.cursor_in # last.sweep.victim_id
    /\ Pinned(strong_count, last.sweep.cursor_in)
    /\ Pinned(last.sweep.rc_in, last.sweep.cursor_in)
    /\ buffers[last.sweep.cursor_in].usage_count = 1
    /\ \E j \in DOMAIN buffers :
           /\ ~Pinned(strong_count, j)
           /\ last.sweep.usage_in[j] > 0
           /\ buffers[j].usage_count = 0


\* C19: NoFreeBuffer is free of side effects on the cached data. A fetch_page
\* that fails with NoFreeBuffer makes no disk call and leaves the disk, the
\* page table, every frame's Buffer (page_id, bytes, is_dirty) and usage_count
\* and every reference as they were; only the clock cursor may have moved.
C19_NoFreeBufferNoEffect ==
    [][(last'.op = "fetch_page" /\ last'.result = "NoFreeBuffer") =>
          /\ last'.io = <<>>
          /\ disk' = disk
          /\ page_table' = page_table
          /\ buffers' = buffers
          /\ strong_count' = strong_count]_vars

\* C19's case: in a pool of three frames, one of them hit twice, a fetch_page
\* failed with NoFreeBuffer and left the cursor somewhere else.
C19_Witness ==
    /\ IsMiss
    /\ last.result = "NoFreeBuffer"
    /\ size(buffers) = 3
    /\ next_victim_id # last.sweep.cursor_in
    /\ \E i \in DOMAIN buffers : buffers[i].usage_count = 2
    /\ last.page_id \notin DOMAIN page_table


====
